---- MODULE Spec2Model ----
(***************************************************************************)
(* Model of the SSE relay of src/transport/sse.rs: the session registry    *)
(* (TxStore), the per-session duplex channel (SseTransport over two        *)
(* bounded tokio mpsc channels), the stream endpoint (sse_handler), the    *)
(* submission endpoint (post_event_handler) and the transport dispenser    *)
(* (AuthSseServer).                                                        *)
(*                                                                         *)
(* Library semantics the code delegates to are written out where the code  *)
(* calls them: tokio::sync::mpsc (a FIFO queue guarded by a fair permit    *)
(* semaphore; dropping the receiver closes the semaphore and discards the  *)
(* queued values), tokio_util::sync::PollSender (the Idle / Acquiring /    *)
(* ReadyToSend / Closed machine), tokio_stream ReceiverStream,             *)
(* futures::stream::once(..).chain(..) and serde_json::to_string.          *)
(*                                                                         *)
(* Spec is the whole relay under the assumption that every call of         *)
(* generate_session_id reads a later clock value, so that ids are fresh.   *)
(* MintSpec drops that assumption. FairSpec is the life cycle of the       *)
(* registry with the spawned removal tasks scheduled fairly.               *)
(*                                                                         *)
(* AuthSpec is the relay behind the TokenAuthLayer of                      *)
(* src/auth/middleware.rs, and PathSpec the calls of safe_resolve of       *)
(* src/config/safe_path.rs over a small file system with symbolic links.   *)
(***************************************************************************)
EXTENDS Integers, Sequences, FiniteSets, TLC

\* ------------------------------------------------------------------ bounds

\* Number of GET /sse requests (connections) the model issues.
MaxConns == 2

\* Number of POST /message requests (submissions) the model issues.
MaxPosts == 3

\* Number of items the engine passes to start_send, over all transports.
MaxSends == 3

\* Number of poll_close calls the engine makes, over all transports.
MaxCloses == 2

\* Number of disruptions the model lets happen in one run: the AuthSseServer
\* dropped, a client disconnecting, the engine dropping a transport, the
\* engine sending a message that cannot be serialized.
MaxFaults == 2

\* Number of environment operations in one run, counted together:
\* submissions begun, items sent, poll_close calls and disruptions.
MaxOps == 4

\* Number of requests sent to a router wrapped in a TokenAuthLayer.
MaxRequests == 4

\* Longest user path, in characters, handed to safe_resolve.
MaxPathLen == 5

\* Symbolic links one resolution follows before it fails (the system's limit
\* is 40; no path of the bounds goes through more than four links unless it
\* goes round a loop).
MaxLinks == 6

\* Slots of each bounded queue. The source creates both queues of a session
\* with mpsc::channel(64); the model keeps the two capacities equal and
\* scales the number down so that full queues are reached.
Capacity == 2

\* Values of the 64-bit random component of a session id. The timestamps
\* of the model already differ, so one value is enough; ids of connections
\* that are not (yet) open serve as the ids no session was registered under.
Randoms == {0}

Conns == 1..MaxConns
Posts == 1..MaxPosts

\* ------------------------------------------------------------------ values

NoId == <<0, 0>>
NoConn == 0

\* post_path of SseApp, set in AuthSseServer::new.
PostPath == "/message"

\* generate_session_id: format!("{:016x}{:016x}", timestamp, random). Both
\* fields are printed with a fixed minimum width of 16 hexadecimal digits,
\* so the string is determined by, and determines, the pair.
generate_session_id(timestamp, random) == <<timestamp, random>>

\* Every session id the model can mint, and hence every id a client can
\* submit with (minted, not yet minted, or never to be minted).
SessionIds == {generate_session_id(t, r) : t \in 1..MaxConns, r \in Randoms}

\* A handshake that advertises an id other than the registered one.
endpoint_event_other_id(post_path, id) ==
    [event |-> "endpoint", data |-> <<post_path, "?sessionId=", NoId>>]

\* The handshake event of sse_handler:
\* Event::default().event("endpoint").data(format!("{post_path}?sessionId={session_id}")).
endpoint_event(post_path, id) ==
    [event |-> "endpoint", data |-> <<post_path, "?sessionId=", id>>]

\* The client's reading of the advertised address, and axum's
\* Query<PostEventQuery> extraction of the sessionId parameter from it.
QuerySessionId(data) == data[3]

\* An outbound message of the engine: the transport it is sent on, its
\* sequence number there, and whether serde_json can serialize it.
OutMsg(c, n, ok) == [via |-> c, n |-> n, serializable |-> ok]

\* A closure that turns every message into a "message" event.
message_event_lenient(message) ==
    [event |-> "message", data |-> <<"json", message.via, message.n>>]

\* serde_json::to_string(&message) followed by the closure of message_stream.
message_event(message) ==
    IF message.serializable
    THEN [event |-> "message", data |-> <<"json", message.via, message.n>>]
    ELSE [event |-> "io_error", data |-> <<"InvalidData">>]

\* ------------------------------------------------------------------ state

VARIABLES
    clock,          \* SystemTime::now() as read by generate_session_id
    txs,            \* TxStore: session id -> connection whose from_client_tx it holds
    removals,       \* removal tasks spawned by poll_close and not yet run: id -> count
    handler,        \* position of each sse_handler call
    session_id,     \* the id each sse_handler call minted
    transport,      \* where each SseTransport is
    dispenser,      \* transport_tx/transport_rx: the unbounded hand-off queue
    router,         \* whether the Router (and so the SseApp it holds) still exists
    server,         \* AuthSseServer: alive, ended (next_transport returned None)
                    \* or dropped (transport_rx no longer exists)
    sink,           \* PollSender of each transport: [state, sender]
    sink_result,    \* outcome of the latest poll_ready or start_send on each transport
    to_client,      \* outbound queue contents (to_client_tx -> to_client_rx)
    sse,            \* the response stream of each connection
    emitted,        \* items each response stream has yielded to the client
    nsent,          \* how many items start_send has accepted on each transport
    from_client,    \* inbound queue contents (from_client_tx -> from_client_rx)
    waiters,        \* submissions suspended in tx.send on each inbound queue, FIFO
    granted,        \* how many waiters at the head already hold a permit
    received,       \* items poll_next has yielded to the engine
    accepted,       \* submissions enqueued on each inbound queue: [sid, message]
    post,           \* each post_event_handler call in flight: [pc, sid, tx], and
                    \* whether its lookup came after poll_close (after_close)
    response,       \* the latest response of post_event_handler: [sid, status]
    ncloses,        \* poll_close calls made
    nfaults,        \* disruptions that have happened
    auth,           \* the TokenAuthLayer around the router, when there is one: its
                    \* token and realm, its latest request and response, and how
                    \* many requests of each route it has handed to the router
    resolved        \* a call of safe_resolve: its base, what /d/l points to, the
                    \* user path, and the result

vars == <<clock, txs, removals, handler, session_id, transport, dispenser, router, server,
          sink, sink_result, to_client, sse, emitted, nsent, from_client, waiters, granted,
          received, accepted, post, response, ncloses, nfaults, auth, resolved>>

\* ------------------------------------------------------------------ helpers

Front(s) == SubSeq(s, 1, Len(s) - 1)

IsPrefix(s, t) == Len(s) <= Len(t) /\ SubSeq(t, 1, Len(s)) = s

Range(s) == {s[i] : i \in 1..Len(s)}

RemoveAt(s, i) == SubSeq(s, 1, i - 1) \o SubSeq(s, i + 1, Len(s))

IndexOf(s, x) == CHOOSE i \in 1..Len(s) : s[i] = x

\* The SseTransport of c exists (its from_client_rx and its PollSender live).
TransportLive(c) == transport[c] \in {"local", "queued", "adopted"}

\* poll_close has returned Ready on the transport of c.
Closed(c) == transport[c] = "adopted" /\ ~sink[c].sender

\* A send that never sees the channel closed.
InboundClosed_ignored(c) == FALSE

\* from_client_rx of c has been dropped: the inbound channel is closed.
InboundClosed(c) == transport[c] = "dropped"

\* to_client_rx of c has been dropped: the outbound channel is closed.
OutboundClosed(c) == sse[c] \in {"refused", "ended", "error", "dropped"}

\* A rendezvous channel: no slot is ever free for a sender that arrives.
InboundPermits_none(c) == 0

\* An unbounded channel: a slot is always free.
InboundPermits_unbounded(c) == 1

\* Free permits of the inbound semaphore of c.
InboundPermits(c) == Capacity - Len(from_client[c]) - granted[c]

\* Free permits of the outbound semaphore of c; a PollSender in ReadyToSend
\* holds one.
OutboundPermits(c) ==
    Capacity - Len(to_client[c]) - (IF sink[c].state = "ReadyToSend" THEN 1 ELSE 0)

\* Some Sender of the outbound channel of c still exists: the PollSender
\* holds one until it is closed or dropped.
OutboundSenderLive(c) == TransportLive(c) /\ sink[c].state # "Closed"

\* A channel that counts no sender.
InboundSenders_none(c) == {}

\* Senders of the inbound channel of c: the registry entries that hold
\* from_client_tx and the clones held by submission handlers.
InboundSenders(c) ==
    {<<"txs", id>> : id \in {i \in DOMAIN txs : txs[i] = c}}
        \cup {<<"post", p>> : p \in {q \in Posts : post[q].tx = c}}

\* Total number of items start_send has accepted.
nsends == LET Sum[k \in 0..MaxConns] == IF k = 0 THEN 0 ELSE nsent[k] + Sum[k - 1]
          IN Sum[MaxConns]

\* Environment operations made so far.
nops == Cardinality({p \in Posts : post[p].pc # "new"}) + nsends + ncloses + nfaults

\* A queue that puts the new value in front.
push_front(queue, value) == <<value>> \o queue

\* tokio mpsc: a sender with a permit appends the value at the tail.
push(queue, value) == Append(queue, value)

\* A receiver that takes the newest value.
recv_newest(queue) == [value |-> queue[Len(queue)], rest |-> Front(queue)]

\* tokio mpsc: the receiver takes the value at the head.
recv(queue) == [value |-> Head(queue), rest |-> Tail(queue)]

\* ------------------------------------------------------------------ initial state

\* The number of requests a TokenAuthLayer has handed to the router.
NoneForwarded == [r \in {"/sse", "/message"} |-> 0]

\* The router is served as AuthSseServer::new returned it, with no layer.
Ungated ==
    [token |-> <<>>, realm |-> "", calls |-> 0, request |-> [route |-> "", header |-> <<>>],
     response |-> [status |-> 0, www_authenticate |-> <<>>, body |-> ""],
     forwarded |-> NoneForwarded]

\* AuthSseServer::new: an empty registry, an empty hand-off queue, no
\* connection yet.
RelayInit ==
    /\ clock = 0
    /\ txs = <<>>
    /\ removals = [id \in SessionIds |-> 0]
    /\ handler = [c \in Conns |-> "start"]
    /\ session_id = [c \in Conns |-> NoId]
    /\ transport = [c \in Conns |-> "none"]
    /\ dispenser = <<>>
    /\ router = "alive"
    /\ server = "alive"
    /\ sink = [c \in Conns |-> [state |-> "Idle", sender |-> TRUE]]
    /\ sink_result = [c \in Conns |-> "none"]
    /\ to_client = [c \in Conns |-> <<>>]
    /\ sse = [c \in Conns |-> "none"]
    /\ emitted = [c \in Conns |-> <<>>]
    /\ nsent = [c \in Conns |-> 0]
    /\ from_client = [c \in Conns |-> <<>>]
    /\ waiters = [c \in Conns |-> <<>>]
    /\ granted = [c \in Conns |-> 0]
    /\ received = [c \in Conns |-> <<>>]
    /\ accepted = [c \in Conns |-> <<>>]
    /\ post = [p \in Posts |-> [pc |-> "new", sid |-> NoId, tx |-> NoConn]]
    /\ response = [sid |-> NoId, status |-> 0]
    /\ nfaults = 0
    /\ ncloses = 0

\* No path has been asked for.
NoPath == [base |-> <<>>, link |-> <<>>, user_path |-> <<>>, result |-> [tag |-> "none", path |-> <<>>]]

Init == RelayInit /\ auth = Ungated /\ resolved = NoPath

\* ------------------------------------------------------------------ registry

\* HashMap::insert under the write lock: unconditional, replaces an entry
\* that has the same key.
Insert(store, id, c) == (id :> c) @@ store

\* A removal that clears the map.
Remove_all(store, id) == <<>>

\* A removal that leaves the map as it is.
Remove_nothing(store, id) == store

\* HashMap::remove under the write lock: a no-op when the key is absent.
Remove(store, id) == [i \in DOMAIN store \ {id} |-> store[i]]

\* A lookup that ignores the key and returns the entry of the smallest id.
Lookup_any(store, id) ==
    IF DOMAIN store = {} THEN NoConn
    ELSE store[CHOOSE i \in DOMAIN store : \A j \in DOMAIN store : i[1] <= j[1]]

\* A lookup that falls back to some entry when the key is absent.
Lookup_or_default(store, id) ==
    IF id \in DOMAIN store THEN store[id] ELSE Lookup_any(store, id)

\* HashMap::get under the read lock.
Lookup(store, id) == IF id \in DOMAIN store THEN store[id] ELSE NoConn

\* ------------------------------------------------------------------ stream endpoint

\* A read guard that lives until the handler returns.
store_kept(pc) == pc \in {"send", "waiting"}

\* Whether post_event_handler holds its read guard `store` at a position
\* where it can be between two steps: the guard lives in the block that
\* looks the sender up and clones it, and is dropped at the end of that
\* block, before tx.send is awaited.
store(pc) == pc \notin {"new", "send", "waiting", "done"}

\* txs.write().await is granted: no read guard is held.
write_granted == \A p \in Posts : ~store(post[p].pc)

\* sse_handler up to the registration: mint the id, create both queues,
\* insert from_client_tx under the write lock and build the SseTransport.
\* The clock has advanced since the previous call read it.
SseRegister(c) ==
    /\ router = "alive"
    /\ write_granted
    /\ handler[c] = "start"
    /\ \A b \in Conns : b < c => handler[b] # "start"
    /\ \E random \in Randoms :
         LET id == generate_session_id(clock + 1, random) IN
         /\ clock' = clock + 1
         /\ session_id' = [session_id EXCEPT ![c] = id]
         /\ txs' = Insert(txs, id, c)
    /\ handler' = [handler EXCEPT ![c] = "registered"]
    /\ transport' = [transport EXCEPT ![c] = "local"]
    /\ UNCHANGED <<auth, resolved, router, removals, dispenser, server, sink, sink_result, to_client, sse,
                   emitted, nsent, from_client, waiters, granted, received, accepted,
                   post, response, ncloses, nfaults>>

\* The same steps of sse_handler when SystemTime::now() reads the nanosecond
\* the previous call read (two requests handled at once on two workers, or
\* a coarse or stepped wall clock) and rand::random() draws the same value.
SseRegisterSameInstant(c) ==
    /\ clock > 0
    /\ router = "alive"
    /\ write_granted
    /\ handler[c] = "start"
    /\ \A b \in Conns : b < c => handler[b] # "start"
    /\ \E random \in Randoms :
         LET id == generate_session_id(clock, random) IN
         /\ clock' = clock
         /\ session_id' = [session_id EXCEPT ![c] = id]
         /\ txs' = Insert(txs, id, c)
    /\ handler' = [handler EXCEPT ![c] = "registered"]
    /\ transport' = [transport EXCEPT ![c] = "local"]
    /\ UNCHANGED <<auth, resolved, router, removals, dispenser, server, sink, sink_result, to_client, sse,
                   emitted, nsent, from_client, waiters, granted, received, accepted,
                   post, response, ncloses, nfaults>>

\* sse_handler from app.transport_tx.send(transport) to its return. When the
\* consuming side is gone the send fails, the transport comes back inside
\* the error and is dropped with it, and the handler answers 500; nothing
\* touches the registry on that path. Otherwise the response stream
\* once(endpoint_event).chain(message_stream) is returned.
SseDispense(c) ==
    /\ handler[c] = "registered"
    /\ IF server # "dropped"
       THEN /\ dispenser' = Append(dispenser, c)
            /\ transport' = [transport EXCEPT ![c] = "queued"]
            /\ handler' = [handler EXCEPT ![c] = "streaming"]
            /\ sse' = [sse EXCEPT ![c] = "first"]
            /\ UNCHANGED <<from_client, granted, nfaults>>
       ELSE /\ transport' = [transport EXCEPT ![c] = "dropped"]
            /\ handler' = [handler EXCEPT ![c] = "failed"]
            /\ sse' = [sse EXCEPT ![c] = "refused"]
            /\ from_client' = [from_client EXCEPT ![c] = <<>>]
            /\ granted' = [granted EXCEPT ![c] = 0]
            /\ UNCHANGED dispenser
    /\ UNCHANGED <<auth, resolved, router, clock, txs, removals, session_id, server, sink, sink_result,
                   to_client, emitted, nsent, waiters, received, accepted, post,
                   response, ncloses, nfaults>>

\* A stream that lets queued messages overtake the handshake.
once_pending_unchained(c) == sse[c] = "first" /\ to_client[c] = <<>>

\* once(endpoint_event).chain(message_stream): the chained stream is not
\* polled before the once() part has yielded its item.
once_pending(c) == sse[c] = "first"

\* One poll of the response stream by the HTTP server. The once() part
\* yields the handshake; after it the chained message_stream yields one
\* item per queued message, ends when the queue is empty and every sender
\* is gone, and is pending otherwise. An Err item ends the response, which
\* drops the stream and with it to_client_rx.
SsePoll(c) ==
    /\ sse[c] \in {"first", "chained"}
    /\ IF once_pending(c)
       THEN /\ emitted' = [emitted EXCEPT
                             ![c] = Append(@, endpoint_event(PostPath, session_id[c]))]
            /\ sse' = [sse EXCEPT ![c] = "chained"]
            /\ UNCHANGED to_client
       ELSE IF to_client[c] # <<>>
       THEN LET item == message_event(recv(to_client[c]).value) IN
            /\ emitted' = [emitted EXCEPT ![c] = Append(@, item)]
            /\ IF item.event = "message"
               THEN /\ to_client' = [to_client EXCEPT ![c] = recv(@).rest]
                    /\ UNCHANGED sse
               ELSE /\ to_client' = [to_client EXCEPT ![c] = <<>>]
                    /\ sse' = [sse EXCEPT ![c] = "error"]
       ELSE /\ ~OutboundSenderLive(c)
            /\ sse' = [sse EXCEPT ![c] = "ended"]
            /\ UNCHANGED <<emitted, to_client, nfaults>>
    /\ UNCHANGED <<auth, resolved, router, clock, txs, removals, handler, session_id, transport, dispenser,
                   server, sink, sink_result, nsent, from_client, waiters, granted,
                   received, accepted, post, response, ncloses, nfaults>>

\* The client closes the connection: the response stream is dropped, and
\* dropping to_client_rx closes the outbound channel and discards what it
\* still holds. Nothing in sse_handler's stream touches the registry.
ClientDisconnect(c) ==
    /\ nfaults < MaxFaults
    /\ nops < MaxOps
    /\ nfaults' = nfaults + 1
    /\ sse[c] \in {"first", "chained"}
    /\ sse' = [sse EXCEPT ![c] = "dropped"]
    /\ to_client' = [to_client EXCEPT ![c] = <<>>]
    /\ UNCHANGED <<auth, resolved, router, clock, txs, removals, handler, session_id, transport, dispenser,
                   server, sink, sink_result, emitted, nsent, from_client, waiters,
                   granted, received, accepted, post, response, ncloses>>

\* ------------------------------------------------------------------ dispenser

\* A channel that reports its senders gone although some exist.
SendersLive_ignored == FALSE

\* Some UnboundedSender of the hand-off channel exists: the SseApp of the
\* Router holds transport_tx, and every request being handled holds a clone
\* of the SseApp until its handler returns.
SendersLive ==
    \/ router = "alive"
    \/ \E c \in Conns : handler[c] = "registered"
    \/ \E p \in Posts : post[p].pc \in {"send", "waiting"}

\* AuthSseServer::next_transport: transport_rx.recv() yields the oldest
\* dispensed transport and the engine adopts it; with nothing queued it is
\* pending while a sender exists and returns None once none does.
NextTransport ==
    /\ server = "alive"
    /\ IF dispenser # <<>>
       THEN /\ transport' = [transport EXCEPT ![Head(dispenser)] = "adopted"]
            /\ dispenser' = Tail(dispenser)
            /\ UNCHANGED server
       ELSE /\ ~SendersLive
            /\ server' = "ended"
            /\ UNCHANGED <<transport, dispenser>>
    /\ UNCHANGED <<auth, resolved, router, clock, txs, removals, handler, session_id, sink,
                   sink_result, to_client, sse, emitted, nsent, from_client, waiters,
                   granted, received, accepted, post, response, ncloses, nfaults>>

\* Every clone of the Router is dropped (the HTTP server shuts down): no
\* new request is handled; the requests in flight run to their end.
RouterDrop ==
    /\ nfaults < MaxFaults
    /\ nops < MaxOps
    /\ nfaults' = nfaults + 1
    /\ router = "alive"
    /\ router' = "dropped"
    /\ UNCHANGED <<auth, resolved, clock, txs, removals, handler, session_id, transport, dispenser,
                   server, sink, sink_result, to_client, sse, emitted, nsent,
                   from_client, waiters, granted, received, accepted, post, response,
                   ncloses>>

\* The AuthSseServer is dropped: transport_rx closes and the transports
\* still queued in it are dropped, each closing its inbound channel.
ServerDrop ==
    /\ nfaults < MaxFaults
    /\ nops < MaxOps
    /\ nfaults' = nfaults + 1
    /\ server # "dropped"
    /\ server' = "dropped"
    /\ dispenser' = <<>>
    /\ transport' = [c \in Conns |->
                       IF c \in Range(dispenser) THEN "dropped" ELSE transport[c]]
    /\ from_client' = [c \in Conns |->
                         IF c \in Range(dispenser) THEN <<>> ELSE from_client[c]]
    /\ granted' = [c \in Conns |-> IF c \in Range(dispenser) THEN 0 ELSE granted[c]]
    /\ UNCHANGED <<auth, resolved, router, clock, txs, removals, handler, session_id, sink, sink_result,
                   to_client, sse, emitted, nsent, waiters, received, accepted, post,
                   response, ncloses>>

\* ------------------------------------------------------------------ SseTransport: Sink

\* A poll_ready that reports ready without reserving a slot.
poll_reserve_unbounded(c) ==
    IF sink[c].state = "Closed" \/ OutboundClosed(c)
    THEN [state |-> "Closed", result |-> "error"]
    ELSE [state |-> "ReadyToSend", result |-> "ready"]

\* PollSender::poll_reserve, which SseTransport::poll_ready forwards to:
\* the next state of the PollSender and the poll's outcome.
poll_reserve(c) ==
    CASE sink[c].state = "ReadyToSend" ->
            [state |-> "ReadyToSend", result |-> "ready"]
      [] sink[c].state = "Closed" ->
            [state |-> "Closed", result |-> "error"]
      [] OTHER ->
            \* Idle starts the acquire future and polls it at once;
            \* Acquiring polls it again.
            IF OutboundClosed(c) THEN [state |-> "Closed", result |-> "error"]
            ELSE IF OutboundPermits(c) > 0
                 THEN [state |-> "ReadyToSend", result |-> "ready"]
                 ELSE [state |-> "Acquiring", result |-> "pending"]

\* SseTransport::poll_ready.
PollReady(c) ==
    /\ transport[c] = "adopted"
    /\ sink' = [sink EXCEPT ![c].state = poll_reserve(c).state]
    /\ sink_result' = [sink_result EXCEPT ![c] = poll_reserve(c).result]
    /\ UNCHANGED <<auth, resolved, router, clock, txs, removals, handler, session_id, transport, dispenser,
                   server, to_client, sse, emitted, nsent, from_client, waiters,
                   granted, received, accepted, post, response, ncloses, nfaults>>

\* PollSender::send_item on a reserved slot: the permit pushes the item
\* whether or not the receiver still exists (a value pushed after the
\* receiver is gone is discarded with the channel), and a close() made since
\* the reservation takes effect now.
send_item(c, item) ==
    [queue |-> IF OutboundClosed(c) THEN to_client[c] ELSE push(to_client[c], item),
     state |-> IF sink[c].sender THEN "Idle" ELSE "Closed",
     result |-> "sent"]

\* SseTransport::start_send, called as the Sink contract requires: after
\* poll_ready returned Ready(Ok) and before any other start_send.
StartSend(c) ==
    /\ transport[c] = "adopted"
    /\ sink[c].state = "ReadyToSend"
    /\ nsends < MaxSends
    /\ nops < MaxOps
    /\ \E ok \in BOOLEAN :
         LET item == OutMsg(c, nsent[c] + 1, ok) IN
         /\ ~ok => nfaults < MaxFaults /\ nops + 1 < MaxOps
         /\ nfaults' = IF ok THEN nfaults ELSE nfaults + 1
         /\ to_client' = [to_client EXCEPT ![c] = send_item(c, item).queue]
         /\ sink' = [sink EXCEPT ![c].state = send_item(c, item).state]
         /\ sink_result' = [sink_result EXCEPT ![c] = send_item(c, item).result]
    /\ nsent' = [nsent EXCEPT ![c] = @ + 1]
    /\ UNCHANGED <<auth, resolved, router, clock, txs, removals, handler, session_id, transport, dispenser,
                   server, sse, emitted, from_client, waiters, granted, received,
                   accepted, post, response, ncloses>>

\* SseTransport::poll_flush after a start_send: PollSender::poll_flush is
\* Ready(Ok) at once and changes nothing.
PollFlush(c) ==
    /\ transport[c] = "adopted"
    /\ sink_result[c] = "sent"
    /\ UNCHANGED vars

\* PollSender::close: the main sender is dropped; a reserved slot is kept
\* for a send_item still to come.
close(c) ==
    [state |-> IF sink[c].state \in {"Idle", "Acquiring"} THEN "Closed" ELSE sink[c].state,
     sender |-> FALSE]

\* SseTransport::poll_close: PollSender::poll_close is always Ready(Ok), so
\* every call spawns one task that removes session_id from the registry.
PollClose(c) ==
    /\ transport[c] = "adopted"
    /\ ncloses < MaxCloses
    /\ nops < MaxOps
    /\ sink' = [sink EXCEPT ![c] = close(c)]
    /\ removals' = [removals EXCEPT ![session_id[c]] = @ + 1]
    /\ ncloses' = ncloses + 1
    /\ UNCHANGED <<auth, resolved, router, clock, txs, handler, session_id, transport, dispenser, server,
                   sink_result, to_client, sse, emitted, nsent, from_client, waiters,
                   granted, received, accepted, post, response, nfaults>>

\* The task spawned by poll_close: tx_store.write().await.remove(&session_id).
RemovalTask(id) ==
    /\ removals[id] > 0
    /\ write_granted
    /\ removals' = [removals EXCEPT ![id] = @ - 1]
    /\ txs' = Remove(txs, id)
    /\ UNCHANGED <<auth, resolved, router, clock, handler, session_id, transport, dispenser, server, sink,
                   sink_result, to_client, sse, emitted, nsent, from_client, waiters,
                   granted, received, accepted, post, response, ncloses, nfaults>>

\* ------------------------------------------------------------------ SseTransport: Stream

EndOfStream == 0

\* SseTransport::poll_next, i.e. ReceiverStream over from_client_rx: the
\* oldest queued message (its permit goes to the first waiter that has
\* none), end-of-stream once the queue is empty and no sender is left,
\* pending otherwise.
PollNext(c) ==
    /\ transport[c] = "adopted"
    /\ IF from_client[c] # <<>>
       THEN /\ received' = [received EXCEPT ![c] = Append(@, recv(from_client[c]).value)]
            /\ from_client' = [from_client EXCEPT ![c] = recv(@).rest]
            /\ granted' = [granted EXCEPT
                             ![c] = IF @ < Len(waiters[c]) THEN @ + 1 ELSE @]
       ELSE /\ InboundSenders(c) = {}
            /\ EndOfStream \notin Range(received[c])
            /\ received' = [received EXCEPT ![c] = Append(@, EndOfStream)]
            /\ UNCHANGED <<from_client, granted, nfaults>>
    /\ UNCHANGED <<auth, resolved, router, clock, txs, removals, handler, session_id, transport, dispenser,
                   server, sink, sink_result, to_client, sse, emitted, nsent, waiters,
                   accepted, post, response, ncloses, nfaults>>

\* The engine drops the SseTransport: from_client_rx goes (the inbound
\* channel closes and discards what it holds) and so does the PollSender.
\* SseTransport has no Drop impl, so the registry is not touched.
DropTransport(c) ==
    /\ nfaults < MaxFaults
    /\ nops < MaxOps
    /\ nfaults' = nfaults + 1
    /\ transport[c] = "adopted"
    /\ transport' = [transport EXCEPT ![c] = "dropped"]
    /\ sink' = [sink EXCEPT ![c] = [state |-> "Closed", sender |-> FALSE]]
    /\ from_client' = [from_client EXCEPT ![c] = <<>>]
    /\ granted' = [granted EXCEPT ![c] = 0]
    /\ UNCHANGED <<auth, resolved, router, clock, txs, removals, handler, session_id, dispenser, server,
                   sink_result, to_client, sse, emitted, nsent, waiters, received,
                   accepted, post, response, ncloses>>

\* ------------------------------------------------------------------ submission endpoint

NOT_FOUND == 404
GONE == 410
ACCEPTED == 202

\* A post_event_handler call that has returned.
Returned == [pc |-> "done", sid |-> NoId, tx |-> NoConn]

\* The submission of handler p: the session id of its query and its body.
\* The body of the p-th request of the model is the message p.
Submission(p) == [sid |-> post[p].sid, message |-> p]

Response(p, status) == [sid |-> post[p].sid, status |-> status]

\* post_event_handler up to the end of the read-lock block: look the
\* session id up and clone its sender, or answer 404. The guard is released
\* at the end of the block, before the send.
PostLookup(p) ==
    /\ router = "alive"
    /\ post[p].pc = "new"
    /\ nops < MaxOps
    /\ \A q \in Posts : q < p => post[q].pc # "new"
    /\ \E id \in SessionIds :
         IF Lookup(txs, id) = NoConn
         THEN /\ post' = [post EXCEPT ![p] = Returned]
              /\ response' = [sid |-> id, status |-> NOT_FOUND]
         ELSE /\ post' = [post EXCEPT
                            ![p] = [pc |-> "send", sid |-> id, tx |-> Lookup(txs, id),
                                    after_close |-> Closed(Lookup(txs, id))]]
              /\ UNCHANGED response
    /\ UNCHANGED <<auth, resolved, router, clock, txs, removals, handler, session_id, transport, dispenser,
                   server, sink, sink_result, to_client, sse, emitted, nsent,
                   from_client, waiters, granted, received, accepted, ncloses, nfaults>>

\* The first poll of tx.send(message).await: 410 when the receiver is gone,
\* enqueue and 202 when a permit is free, otherwise the handler joins the
\* semaphore's waiters and stays suspended.
PostSend(p) ==
    /\ post[p].pc = "send"
    /\ LET c == post[p].tx IN
       IF InboundClosed(c)
       THEN /\ post' = [post EXCEPT ![p] = Returned]
            /\ response' = Response(p, GONE)
            /\ UNCHANGED <<from_client, accepted, waiters, nfaults>>
       ELSE IF InboundPermits(c) > 0
       THEN /\ from_client' = [from_client EXCEPT ![c] = push(@, p)]
            /\ accepted' = [accepted EXCEPT ![c] = Append(@, Submission(p))]
            /\ post' = [post EXCEPT ![p] = Returned]
            /\ response' = Response(p, ACCEPTED)
            /\ UNCHANGED waiters
       ELSE /\ waiters' = [waiters EXCEPT ![c] = Append(@, p)]
            /\ post' = [post EXCEPT ![p].pc = "waiting"]
            /\ UNCHANGED <<from_client, accepted, response, nfaults>>
    /\ UNCHANGED <<auth, resolved, router, clock, txs, removals, handler, session_id, transport, dispenser,
                   server, sink, sink_result, to_client, sse, emitted, nsent, granted,
                   received, ncloses, nfaults>>

\* A suspended tx.send is polled again: 410 when the receiver has gone in
\* the meantime, enqueue and 202 when the waiter has been handed a permit.
PostResume(p) ==
    /\ post[p].pc = "waiting"
    /\ LET c == post[p].tx
           i == IndexOf(waiters[c], p)
       IN
       /\ waiters' = [waiters EXCEPT ![c] = RemoveAt(@, i)]
       /\ post' = [post EXCEPT ![p] = Returned]
       /\ IF InboundClosed(c)
          THEN /\ response' = Response(p, GONE)
               /\ UNCHANGED <<from_client, accepted, granted, nfaults>>
          ELSE /\ i <= granted[c]
               /\ granted' = [granted EXCEPT ![c] = @ - 1]
               /\ from_client' = [from_client EXCEPT ![c] = push(@, p)]
               /\ accepted' = [accepted EXCEPT ![c] = Append(@, Submission(p))]
               /\ response' = Response(p, ACCEPTED)
    /\ UNCHANGED <<auth, resolved, router, clock, txs, removals, handler, session_id, transport, dispenser,
                   server, sink, sink_result, to_client, sse, emitted, nsent, received,
                   ncloses, nfaults>>

\* ------------------------------------------------------------------ token authentication

\* Text is modelled as the sequence of its bytes.
Bearer_ == <<66, 101, 97, 114, 101, 114, 32>>
Basic_ == <<66, 97, 115, 105, 99, 32>>
Colon == <<58>>

\* Tokens a TokenAuthLayer is configured with: "s", "s:k" and e-acute (the
\* two bytes 0xC3 0xA9); the token is any String, BaseConfig takes it from
\* the environment.
Tokens == {<<115>>, <<115, 58, 107>>, <<195, 169>>}

\* Realms: the default of TokenAuthLayer::new and one given to with_realm.
Realms == {"mcp-core", "my-custom-realm"}

\* The request has no Authorization header.
NoHeader == <<0>>

\* Bearer s
H_BearerS == <<66, 101, 97, 114, 101, 114, 32, 115>>
\* Bearer s:k
H_BearerSK == <<66, 101, 97, 114, 101, 114, 32, 115, 58, 107>>
\* Bearer x
H_BearerX == <<66, 101, 97, 114, 101, 114, 32, 120>>
\* bearer s
H_bearerS == <<98, 101, 97, 114, 101, 114, 32, 115>>
\* Bearer  s (two spaces)
H_BearerSpaceS == <<66, 101, 97, 114, 101, 114, 32, 32, 115>>
\* Bearer s followed by the byte 0xE9
H_BearerNonAscii == <<66, 101, 97, 114, 101, 114, 32, 115, 233>>
\* Bearer followed by e-acute in UTF-8
H_BearerUtf8 == <<66, 101, 97, 114, 101, 114, 32, 195, 169>>
\* Basic base64("u:s")
H_BasicUS == <<66, 97, 115, 105, 99, 32, 100, 84, 112, 122>>
\* Basic base64(":s")
H_BasicEmptyUserS == <<66, 97, 115, 105, 99, 32, 79, 110, 77, 61>>
\* Basic base64("u:s:k")
H_BasicUSK == <<66, 97, 115, 105, 99, 32, 100, 84, 112, 122, 79, 109, 115, 61>>
\* Basic base64 of "u:" and e-acute in UTF-8
H_BasicUUtf8 == <<66, 97, 115, 105, 99, 32, 100, 84, 114, 68, 113, 81, 61, 61>>
\* Basic base64("u:x")
H_BasicUX == <<66, 97, 115, 105, 99, 32, 100, 84, 112, 52>>
\* Basic base64("s")
H_BasicNoColon == <<66, 97, 115, 105, 99, 32, 99, 119, 61, 61>>
\* Basic base64 of 0xC3 0xA9 ":s" (the user name is e-acute)
H_BasicUtf8UserS == <<66, 97, 115, 105, 99, 32, 119, 54, 107, 54, 99, 119, 61, 61>>
\* Basic base64 of 0xFF ":s"
H_BasicBadUtf8 == <<66, 97, 115, 105, 99, 32, 47, 122, 112, 122>>
\* Basic u:s (not encoded)
H_BasicNotBase64 == <<66, 97, 115, 105, 99, 32, 117, 58, 115>>
\* Basic base64("u:s") without its padding
H_BasicUnpadded == <<66, 97, 115, 105, 99, 32, 100, 84, 112, 122, 97, 119, 61>>
\* basic base64("u:s")
H_basicUS == <<98, 97, 115, 105, 99, 32, 100, 84, 112, 122>>

\* Values of the Authorization header the model sends.
Headers ==
    {NoHeader, H_BearerS, H_BearerSK, H_BearerX, H_bearerS, H_BearerSpaceS,
     H_BearerNonAscii, H_BasicUS, H_BasicEmptyUserS, H_BasicUSK, H_BasicUX,
     H_BasicNoColon, H_BasicUtf8UserS, H_BasicBadUtf8, H_BasicNotBase64,
     H_BasicUnpadded, H_basicUS, H_BearerUtf8, H_BasicUUtf8}

\* Routes of the router returned by AuthSseServer::new.
Routes == {"/sse", "/message"}

\* HeaderValue::to_str: the text of the value when every byte is a visible
\* ASCII character, a space or a tab.
to_str(value) ==
    IF \A i \in 1..Len(value) : value[i] \in 32..126 \/ value[i] = 9
    THEN [ok |-> TRUE, text |-> value]
    ELSE [ok |-> FALSE, text |-> <<>>]

\* str::strip_prefix: the rest of the text after the prefix, when it starts
\* with the prefix.
strip_prefix(text, prefix) ==
    IF Len(text) >= Len(prefix) /\ SubSeq(text, 1, Len(prefix)) = prefix
    THEN [some |-> TRUE, rest |-> SubSeq(text, Len(prefix) + 1, Len(text))]
    ELSE [some |-> FALSE, rest |-> <<>>]

\* The value of a character of the standard base64 alphabet, -1 for any
\* other byte.
B64Value(b) ==
    IF b \in 65..90 THEN b - 65
    ELSE IF b \in 97..122 THEN b - 71
    ELSE IF b \in 48..57 THEN b + 4
    ELSE IF b = 43 THEN 62
    ELSE IF b = 47 THEN 63
    ELSE -1

\* Decoding with the STANDARD engine, four characters at a time: padding is
\* required, may stand only at the end, and the bits it cuts off must be 0.
RECURSIVE decode_quads(_)
decode_quads(input) ==
    IF input = <<>> THEN [ok |-> TRUE, bytes |-> <<>>]
    ELSE LET v == [i \in 1..4 |-> B64Value(input[i])]
             pad == [i \in 1..4 |-> input[i] = 61]
             last == Len(input) = 4
             rest == decode_quads(SubSeq(input, 5, Len(input)))
             b1 == v[1] * 4 + v[2] \div 16
             b2 == (v[2] % 16) * 16 + v[3] \div 4
             b3 == (v[3] % 4) * 64 + v[4]
         IN
         IF \A i \in 1..4 : v[i] >= 0
         THEN [ok |-> rest.ok, bytes |-> <<b1, b2, b3>> \o rest.bytes]
         ELSE IF last /\ pad[4] /\ v[1] >= 0 /\ v[2] >= 0 /\ v[3] >= 0 /\ v[3] % 4 = 0
         THEN [ok |-> TRUE, bytes |-> <<b1, b2>>]
         ELSE IF last /\ pad[4] /\ pad[3] /\ v[1] >= 0 /\ v[2] >= 0 /\ v[2] % 16 = 0
         THEN [ok |-> TRUE, bytes |-> <<b1>>]
         ELSE [ok |-> FALSE, bytes |-> <<>>]

\* Whether the bytes are well-formed UTF-8, as read_to_string requires.
RECURSIVE valid_utf8(_)
valid_utf8(bytes) ==
    LET n == Len(bytes)
        Cont(i, lo, hi) == n >= i /\ bytes[i] \in lo..hi
        After(k) == valid_utf8(SubSeq(bytes, k + 1, n))
        b == bytes[1]
    IN
    IF bytes = <<>> THEN TRUE
    ELSE IF b <= 127 THEN After(1)
    ELSE IF b \in 194..223 THEN Cont(2, 128, 191) /\ After(2)
    ELSE IF b = 224 THEN Cont(2, 160, 191) /\ Cont(3, 128, 191) /\ After(3)
    ELSE IF b \in 225..236 \cup 238..239
         THEN Cont(2, 128, 191) /\ Cont(3, 128, 191) /\ After(3)
    ELSE IF b = 237 THEN Cont(2, 128, 159) /\ Cont(3, 128, 191) /\ After(3)
    ELSE IF b = 240
         THEN Cont(2, 144, 191) /\ Cont(3, 128, 191) /\ Cont(4, 128, 191) /\ After(4)
    ELSE IF b \in 241..243
         THEN Cont(2, 128, 191) /\ Cont(3, 128, 191) /\ Cont(4, 128, 191) /\ After(4)
    ELSE IF b = 244
         THEN Cont(2, 128, 143) /\ Cont(3, 128, 191) /\ Cont(4, 128, 191) /\ After(4)
    ELSE FALSE

\* base64_decode: a DecoderReader over the STANDARD engine, read to a String.
base64_decode(input) ==
    LET d == IF Len(input) % 4 = 0 THEN decode_quads(input)
             ELSE [ok |-> FALSE, bytes |-> <<>>]
    IN IF d.ok /\ valid_utf8(d.bytes)
       THEN [ok |-> TRUE, text |-> d.bytes]
       ELSE [ok |-> FALSE, text |-> <<>>]

\* str::split_once(':'): the text before and after the first occurrence of
\* the delimiter.
split_once(text, delimiter) ==
    IF \E i \in 1..Len(text) : <<text[i]>> = delimiter
    THEN LET i == CHOOSE j \in 1..Len(text) :
                      /\ <<text[j]>> = delimiter
                      /\ \A k \in 1..(j - 1) : <<text[k]>> # delimiter
         IN [some |-> TRUE, before |-> SubSeq(text, 1, i - 1),
             after |-> SubSeq(text, i + 1, Len(text))]
    ELSE [some |-> FALSE, before |-> <<>>, after |-> <<>>]

UNAUTHORIZED == 401

\* The response TokenAuthService builds when no valid credentials came.
Unauthorized(realm) ==
    [status |-> UNAUTHORIZED,
     www_authenticate |-> <<"Bearer, Basic realm=\"", realm, "\"">>,
     body |-> "Unauthorized"]

\* The gate hands the request to the inner service, whose response is the
\* response.
Forwarded == [status |-> 0, www_authenticate |-> <<>>, body |-> "inner"]

\* TokenAuthService::call: the Bearer check, then the Basic check, then 401.
call(token, realm, header) ==
    LET auth_str == IF header = NoHeader THEN [ok |-> FALSE, text |-> <<>>]
                    ELSE to_str(header)
        bearer_token == strip_prefix(auth_str.text, Bearer_)
        basic_creds == strip_prefix(auth_str.text, Basic_)
        decoded == base64_decode(basic_creds.rest)
        password == split_once(decoded.text, Colon)
    IN
    IF auth_str.ok /\ bearer_token.some /\ bearer_token.rest = token
    THEN Forwarded
    ELSE IF /\ auth_str.ok /\ basic_creds.some /\ decoded.ok
            /\ password.some /\ password.after = token
    THEN Forwarded
    ELSE Unauthorized(realm)

\* The relay's routes have handlers for at most this many requests.
Handlers(route) == IF route = "/sse" THEN MaxConns ELSE MaxPosts

\* One request to the wrapped router: TokenAuthService::call decides from
\* the Authorization header whether the inner service is called or the
\* request is answered 401. Nothing of the relay is touched here.
TokenAuthCall ==
    /\ auth.calls < MaxRequests
    /\ \E route \in Routes, header \in Headers :
         LET out == call(auth.token, auth.realm, header) IN
         /\ out = Forwarded => auth.forwarded[route] < Handlers(route)
         /\ auth' = [auth EXCEPT
                        !.calls = @ + 1,
                        !.request = [route |-> route, header |-> header],
                        !.response = out,
                        !.forwarded[route] = IF out = Forwarded THEN @ + 1 ELSE @]
    /\ UNCHANGED <<resolved, clock, txs, removals, handler, session_id, transport,
                   dispenser, router, server, sink, sink_result, to_client, sse, emitted,
                   nsent, from_client, waiters, granted, received, accepted, post,
                   response, ncloses, nfaults>>

\* inner.call(req) for a GET /sse the gate let through: sse_handler runs.
GatedSseRegister(c) == c <= auth.forwarded["/sse"] /\ SseRegister(c)

\* inner.call(req) for a POST /message the gate let through:
\* post_event_handler runs.
GatedPostLookup(p) == p <= auth.forwarded["/message"] /\ PostLookup(p)

\* ------------------------------------------------------------------ safe paths

\* A path text is the sequence of its characters; a resolved path is the
\* sequence of its names from the root, a name being a sequence of
\* characters.
NUL == "NUL"
Chars == {"/", "\\", NUL, ".", "d", "l", "s"}

\* The file system: the directory /d with the file /d/s and the symbolic
\* link /d/l, the directory /dd with the file /dd/s, and the symbolic link
\* /b to /d. What /d/l points to varies.
LinkTargets ==
    {<<"s">>, <<"/", "d">>, <<"/", "d", "d">>, <<".", ".", "/", "d", "d">>, <<"l">>}

\* The base directories asked for: /d, the link /b, and /x, which is absent.
Bases == {<<"/", "d">>, <<"/", "b">>, <<"/", "x">>}

UserPaths == UNION {[1..n -> Chars] : n \in 0..MaxPathLen}

Node(link, p) ==
    IF p \in {<<>>, <<(<<"d">>)>>, <<(<<"d", "d">>)>>} THEN [kind |-> "dir", target |-> <<>>]
    ELSE IF p \in {<<(<<"d">>), <<"s">>>>, <<(<<"d", "d">>), <<"s">>>>}
         THEN [kind |-> "file", target |-> <<>>]
    ELSE IF p = <<(<<"d">>), <<"l">>>> THEN [kind |-> "link", target |-> link]
    ELSE IF p = <<(<<"b">>)>> THEN [kind |-> "link", target |-> <<"/", "d">>]
    ELSE [kind |-> "absent", target |-> <<>>]

\* The names of a path text: the pieces between its separators.
RECURSIVE Split(_)
Split(text) ==
    IF \E i \in 1..Len(text) : text[i] = "/"
    THEN LET i == CHOOSE j \in 1..Len(text) :
                      text[j] = "/" /\ \A k \in 1..(j - 1) : text[k] # "/"
         IN <<SubSeq(text, 1, i - 1)>> \o Split(SubSeq(text, i + 1, Len(text)))
    ELSE <<text>>

\* The text of a resolved path.
RECURSIVE Render(_)
Render(p) ==
    IF p = <<>> THEN <<"/">>
    ELSE IF Len(p) = 1 THEN <<"/">> \o p[1]
    ELSE Render(SubSeq(p, 1, Len(p) - 1)) \o <<"/">> \o p[Len(p)]


Failed == [ok |-> FALSE, path |-> <<>>]

\* Resolution of the names rest from the directory cur: "." and an empty
\* name stay, ".." goes to the parent, a symbolic link is followed, and
\* anything after a name that is no directory fails.
RECURSIVE Walk(_, _, _, _)
Walk(link, cur, rest, hops) ==
    IF rest = <<>> THEN [ok |-> TRUE, path |-> cur]
    ELSE IF Node(link, cur).kind # "dir" THEN Failed
    ELSE LET c == Head(rest)
             r == Tail(rest)
             n == Node(link, Append(cur, c))
         IN
         IF c \in {<<>>, <<".">>} THEN Walk(link, cur, r, hops)
         ELSE IF c = <<".", ".">>
              THEN Walk(link, SubSeq(cur, 1, Len(cur) - 1), r, hops)
         ELSE IF n.kind = "absent" THEN Failed
         ELSE IF n.kind = "link"
              THEN IF hops = 0 THEN Failed
                   ELSE IF Head(n.target) = "/"
                        THEN Walk(link, <<>>, Split(n.target) \o r, hops - 1)
                        ELSE Walk(link, cur, Split(n.target) \o r, hops - 1)
         ELSE Walk(link, Append(cur, c), r, hops)

\* Path::canonicalize of an absolute path text.
canonicalize(link, text) ==
    IF \E i \in 1..Len(text) : text[i] = NUL THEN Failed
    ELSE Walk(link, <<>>, Split(text), MaxLinks)

\* Path::join: an absolute path replaces the base, any other is appended
\* after a separator.
join(base_text, user_path) ==
    IF user_path # <<>> /\ Head(user_path) = "/" THEN user_path
    ELSE IF base_text[Len(base_text)] = "/" THEN base_text \o user_path
    ELSE base_text \o <<"/">> \o user_path

\* A comparison of the texts.
starts_with_text(path, base) ==
    LET p == Render(path)
        b == Render(base)
    IN Len(p) >= Len(b) /\ SubSeq(p, 1, Len(b)) = b

\* Path::starts_with: the names of base are the first names of path.
starts_with(path, base) ==
    Len(path) >= Len(base) /\ SubSeq(path, 1, Len(base)) = base

PathTraversal == [tag |-> "PathTraversal", path |-> <<>>]
InvalidBase == [tag |-> "InvalidBase", path |-> <<>>]
NotFound == [tag |-> "NotFound", path |-> <<>>]
Ok(path) == [tag |-> "Ok", path |-> path]

safe_resolve(link, base, user_path) ==
    IF \/ user_path # <<>> /\ Head(user_path) \in {"/", "\\"}
       \/ \E i \in 1..Len(user_path) : user_path[i] = NUL
    THEN PathTraversal
    ELSE LET canonical_base == canonicalize(link, base) IN
         IF ~canonical_base.ok THEN InvalidBase
         ELSE LET candidate == join(Render(canonical_base.path), user_path)
                  canonical == canonicalize(link, candidate)
              IN
              IF ~canonical.ok THEN NotFound
              ELSE IF ~starts_with(canonical.path, canonical_base.path) THEN PathTraversal
              ELSE Ok(canonical.path)

\* One call of safe_resolve (BaseConfig::resolve_data_path hands it the data
\* directory as the base).
SafeResolve ==
    /\ resolved.result.tag = "none"
    /\ resolved' = [resolved EXCEPT
                      !.result = safe_resolve(resolved.link, resolved.base,
                                              resolved.user_path)]
    /\ UNCHANGED <<auth, clock, txs, removals, handler, session_id, transport,
                   dispenser, router, server, sink, sink_result, to_client, sse, emitted,
                   nsent, from_client, waiters, granted, received, accepted, post,
                   response, ncloses, nfaults>>

\* ------------------------------------------------------------------ specification

Next ==
    \/ \E c \in Conns : SseRegister(c)
    \/ \E c \in Conns : SseDispense(c)
    \/ \E c \in Conns : SsePoll(c)
    \/ \E c \in Conns : ClientDisconnect(c)
    \/ NextTransport
    \/ RouterDrop
    \/ ServerDrop
    \/ \E c \in Conns : PollReady(c)
    \/ \E c \in Conns : StartSend(c)
    \/ \E c \in Conns : PollFlush(c)
    \/ \E c \in Conns : PollClose(c)
    \/ \E id \in SessionIds : RemovalTask(id)
    \/ \E c \in Conns : PollNext(c)
    \/ \E c \in Conns : DropTransport(c)
    \/ \E p \in Posts : PostLookup(p)
    \/ \E p \in Posts : PostSend(p)
    \/ \E p \in Posts : PostResume(p)

Spec == Init /\ [][Next]_vars

\* Stream-opens, adoptions, closes, removals and submissions, without the
\* assumption that no two calls of generate_session_id return the same id.
MintNext ==
    \/ \E c \in Conns : SseRegister(c)
    \/ \E c \in Conns : SseRegisterSameInstant(c)
    \/ \E c \in Conns : SseDispense(c)
    \/ \E c \in Conns : SsePoll(c)
    \/ NextTransport
    \/ ServerDrop
    \/ \E c \in Conns : PollClose(c)
    \/ \E id \in SessionIds : RemovalTask(id)
    \/ \E c \in Conns : PollNext(c)
    \/ \E p \in Posts : PostLookup(p)
    \/ \E p \in Posts : PostSend(p)

MintSpec == Init /\ [][MintNext]_vars

\* The router wrapped in a TokenAuthLayer with some token and realm.
AuthInit ==
    /\ RelayInit
    /\ \E token \in Tokens, realm \in Realms :
         auth = [Ungated EXCEPT !.token = token, !.realm = realm]
    /\ resolved = NoPath

\* The relay behind the gate: every request comes through TokenAuthCall,
\* and the handlers run only for the requests it let through. The engine
\* adopts transports and leaves the queues alone.
AuthNext ==
    \/ TokenAuthCall
    \/ \E c \in Conns : GatedSseRegister(c)
    \/ \E c \in Conns : SseDispense(c)
    \/ \E c \in Conns : SsePoll(c)
    \/ NextTransport
    \/ \E p \in Posts : GatedPostLookup(p)
    \/ \E p \in Posts : PostSend(p)

AuthSpec == AuthInit /\ [][AuthNext]_vars

\* Calls of safe_resolve for every base, file system and user path of the
\* bounds.
PathInit ==
    /\ RelayInit
    /\ auth = Ungated
    /\ \E base \in Bases, link \in LinkTargets, user_path \in UserPaths :
         resolved = [NoPath EXCEPT !.base = base, !.link = link, !.user_path = user_path]

PathNext == SafeResolve

PathSpec == PathInit /\ [][PathNext]_vars

\* The life cycle of the registry: stream-opens, adoptions, submissions,
\* closes, removals, and sessions ending by a client disconnect or a
\* dropped transport. The engine sends nothing and the AuthSseServer and
\* the router stay.
RegistryNext ==
    \/ \E c \in Conns : SseRegister(c)
    \/ \E c \in Conns : SseDispense(c)
    \/ \E c \in Conns : SsePoll(c)
    \/ \E c \in Conns : ClientDisconnect(c)
    \/ NextTransport
    \/ \E c \in Conns : PollClose(c)
    \/ \E id \in SessionIds : RemovalTask(id)
    \/ \E c \in Conns : PollNext(c)
    \/ \E c \in Conns : DropTransport(c)
    \/ \E p \in Posts : PostLookup(p)
    \/ \E p \in Posts : PostSend(p)
    \/ \E p \in Posts : PostResume(p)

\* The tokio runtime runs every spawned task: a removal task is polled until
\* it completes. Its only await is the write lock of the registry, which is
\* FIFO-fair and which no handler holds across an await.
FairSpec ==
    /\ Init
    /\ [][RegistryNext]_vars
    /\ \A id \in SessionIds : WF_vars(RemovalTask(id))

\* ------------------------------------------------------------------ claims

\* The messages of the submissions enqueued on the inbound queue of c.
AcceptedMessages(c) == [i \in 1..Len(accepted[c]) |-> accepted[c][i].message]

\* The messages poll_next has yielded on c.
Yielded(c) == SelectSeq(received[c], LAMBDA m : m # EndOfStream)

\* The messages the stream of c has emitted as "message" events.
MessageEvents(c) == SelectSeq(emitted[c], LAMBDA e : e.event = "message")

\* C1: on every session, poll_next yields the messages in the order their
\* submissions were enqueued, each once: what the engine has received is
\* always a prefix of what was accepted, and while the receiver exists the
\* accepted messages not yet received are exactly the queue, in order.
C1_InboundOrder ==
    \A c \in Conns :
        /\ IsPrefix(Yielded(c), AcceptedMessages(c))
        /\ ~InboundClosed(c) => AcceptedMessages(c) = Yielded(c) \o from_client[c]

\* C1 witness: the engine has received two messages of one session, and the
\* later request was enqueued (and received) first.
C1_Witness == \E c \in Conns : Yielded(c) = <<2, 1>>

\* C2: on every session, the "message" events emitted are the messages
\* start_send accepted, in that order from the first one on, one event per
\* message; while the stream is open nothing is left out: what was sent and
\* not yet emitted is exactly the queue, in order.
C2_OutboundOrder ==
    \A c \in Conns :
        /\ \A i \in 1..Len(MessageEvents(c)) :
               MessageEvents(c)[i] = message_event(OutMsg(c, i, TRUE))
        /\ Len(MessageEvents(c)) <= nsent[c]
        /\ sse[c] \in {"first", "chained"} =>
               /\ Len(MessageEvents(c)) + Len(to_client[c]) = nsent[c]
               /\ \A j \in 1..Len(to_client[c]) :
                      to_client[c][j].n = Len(MessageEvents(c)) + j

\* C2 witness: a stream that is still open has emitted two messages.
C2_Witness ==
    \E c \in Conns : sse[c] = "chained" /\ Len(MessageEvents(c)) >= 2

\* C3: on every stream the first item emitted is the "endpoint" event and
\* no later item is one; until it has gone out nothing is emitted, whatever
\* the engine has queued already, so no "message" event ever precedes it.
C3_HandshakeFirst ==
    \A c \in Conns :
        /\ \A i \in 1..Len(emitted[c]) : (emitted[c][i].event = "endpoint") <=> (i = 1)
        /\ sse[c] = "first" => emitted[c] = <<>>

\* C3 witness: a stream has emitted the handshake and then a message.
C3_Witness ==
    \E c \in Conns :
        /\ Len(emitted[c]) >= 2
        /\ emitted[c][1].event = "endpoint"
        /\ emitted[c][2].event = "message"

\* The session id a client reads from the handshake of c.
Advertised(c) == QuerySessionId(emitted[c][1].data)

\* The client of c has seen the handshake.
HandshakeSeen(c) == emitted[c] # <<>>

\* The session of c has not been closed: the SseTransport exists and
\* poll_close has not been called on it.
SessionOpen(c) == transport[c] \in {"local", "queued", "adopted"} /\ sink[c].sender

\* Handler p takes its lookup step.
LookupStep(p) == post[p].pc = "new" /\ post'[p].pc # "new"

\* The session id of the request whose lookup step this is.
RequestId(p) == IF post'[p].pc = "send" THEN post'[p].sid ELSE response'.sid

\* Handler p takes a step of tx.send(message).await.
SendStep(p) == post[p].pc \in {"send", "waiting"} /\ post'[p] # post[p]

C4_Registered ==
    \A c \in Conns :
        HandshakeSeen(c) =>
            /\ emitted[c][1] = [event |-> "endpoint",
                                data |-> <<PostPath, "?sessionId=", session_id[c]>>]
            /\ handler[c] = "streaming"
            /\ transport[c] \in {"queued", "adopted", "dropped"}
            /\ SessionOpen(c) => /\ Advertised(c) \in DOMAIN txs
                                 /\ txs[Advertised(c)] = c

C4_Submission ==
    \A p \in Posts : \A c \in Conns :
        HandshakeSeen(c) /\ SessionOpen(c) =>
            /\ LookupStep(p) /\ RequestId(p) = Advertised(c) =>
                   post'[p].pc = "send" /\ post'[p].tx = c
            /\ SendStep(p) /\ post[p].sid = Advertised(c) /\ post'[p].pc = "done" =>
                   /\ response' = [sid |-> Advertised(c), status |-> ACCEPTED]
                   /\ from_client'[c] = Append(from_client[c], p)

C5_Isolation ==
    /\ \A c \in Conns :
        /\ \A i \in 1..Len(accepted[c]) : accepted[c][i].sid = session_id[c]
        /\ Range(from_client[c]) \cup Range(Yielded(c)) \subseteq Range(AcceptedMessages(c))
        /\ \A j \in 1..Len(to_client[c]) : to_client[c][j].via = c
        /\ \A k \in 1..Len(MessageEvents(c)) : MessageEvents(c)[k].data[2] = c
    /\ \A c, d \in Conns :
        c # d => Range(AcceptedMessages(c)) \cap Range(AcceptedMessages(d)) = {}

\* C5 witness: two sessions, each with an accepted submission and each
\* with a message emitted on its stream.
C5_Witness ==
    \A c \in Conns : accepted[c] # <<>> /\ MessageEvents(c) # <<>>

\* C6: a submission whose session id is not a key of the registry is
\* answered 404 at its lookup, enqueues nothing and leaves the registry as
\* it was; only a submission whose id is a key goes on to send.
C6_Step ==
    \A p \in Posts :
        LookupStep(p) =>
            IF RequestId(p) \in DOMAIN txs
            THEN post'[p].pc = "send"
            ELSE /\ post'[p].pc = "done"
                 /\ response' = [sid |-> RequestId(p), status |-> NOT_FOUND]
                 /\ txs' = txs
                 /\ from_client' = from_client
                 /\ accepted' = accepted
                 /\ waiters' = waiters

C6_UnknownSession == [][C6_Step]_vars

\* C6 witness: 404 for an id that a session was registered under and that
\* has since been removed.
C6_Witness ==
    /\ response.status = NOT_FOUND
    /\ \E c \in Conns : session_id[c] = response.sid
    /\ response.sid \notin DOMAIN txs

\* C7: a submission whose session id is a key of the registry while the
\* receiver of that session's inbound queue is gone passes the lookup (no
\* 404) and is answered 410 by its send, never 202; nothing is enqueued and
\* the registry is unchanged.
C7_Step ==
    \A p \in Posts :
        /\ LookupStep(p) /\ RequestId(p) \in DOMAIN txs
                /\ transport[txs[RequestId(p)]] = "dropped" =>
               post'[p].pc = "send" /\ txs' = txs
        /\ SendStep(p) /\ transport[post[p].tx] = "dropped" =>
               /\ post'[p].pc = "done"
               /\ response' = [sid |-> post[p].sid, status |-> GONE]
               /\ txs' = txs
               /\ from_client' = from_client
               /\ accepted' = accepted

C7_Gone == [][C7_Step]_vars

\* C7 witness: 410 for an id that is still a key of the registry.
C7_Witness == response.status = GONE /\ response.sid \in DOMAIN txs

\* C8: a submission whose session id is registered goes on to send, and a
\* send that finds the queue open with a free slot appends the message at
\* the tail of that session's queue, touches no other queue, and is
\* answered 202 in that very step, the engine having received nothing.
C8_Step ==
    \A p \in Posts :
        /\ LookupStep(p) /\ RequestId(p) \in DOMAIN txs =>
               post'[p].pc = "send" /\ post'[p].tx = txs[RequestId(p)]
        /\ post[p].pc = "send" /\ post'[p] # post[p]
                /\ transport[post[p].tx] # "dropped"
                /\ Len(from_client[post[p].tx]) + granted[post[p].tx] < Capacity =>
               /\ post'[p].pc = "done"
               /\ response' = [sid |-> post[p].sid, status |-> ACCEPTED]
               /\ from_client' = [from_client EXCEPT ![post[p].tx] = Append(@, p)]
               /\ received' = received

C8_Accepted == [][C8_Step]_vars

\* C8 witness: 202 for a message that sits on the queue of a transport the
\* engine has not even adopted.
C8_Witness ==
    \E c \in Conns :
        /\ transport[c] = "queued"
        /\ response = [sid |-> session_id[c], status |-> ACCEPTED]
        /\ from_client[c] # <<>>

\* The receiver of the outbound queue of c exists.
StreamOpen(c) == sse[c] \in {"none", "first", "chained"}

C9_Bounded ==
    \A c \in Conns :
        /\ Len(to_client[c]) <= Capacity
        /\ Len(to_client[c]) = Capacity =>
               /\ sink[c].state # "ReadyToSend"
               /\ sink_result[c] # "ready"
               /\ transport[c] = "adopted" /\ sink[c].sender /\ StreamOpen(c) =>
                      poll_reserve(c).result = "pending"

C9_Kept ==
    \A c \in Conns :
        to_client'[c] # to_client[c] =>
            \/ /\ nsent'[c] = nsent[c] + 1
               /\ Len(to_client[c]) < Capacity
               /\ to_client'[c] = Append(to_client[c], OutMsg(c, nsent'[c], TRUE))
                      \/ to_client'[c] = Append(to_client[c], OutMsg(c, nsent'[c], FALSE))
            \/ /\ to_client'[c] = Tail(to_client[c])
               /\ emitted'[c] = Append(emitted[c], message_event(Head(to_client[c])))
            \/ /\ to_client'[c] = <<>>
               /\ StreamOpen(c) /\ ~StreamOpen(c)'

\* C9: the outbound queue never holds more than Capacity messages (the 64
\* of the source); while it is full no slot is reserved and poll_ready, on
\* a transport that is neither closed nor disconnected, is pending; and the
\* queue changes only by start_send appending one message to a queue that
\* has room, by the stream emitting its head, or by the stream being
\* dropped: nothing is dropped or overwritten to make room.
C9_Backpressure == [](C9_Bounded) /\ [][C9_Kept]_vars

\* C9 witness: the queue is full and the engine's poll_ready was pending.
C9_Witness ==
    \E c \in Conns :
        /\ Len(to_client[c]) = Capacity
        /\ sink[c].state = "Acquiring"
        /\ sink_result[c] = "pending"

\* C10, as claimed: once the receiver of the outbound queue is gone, every
\* poll_ready or start_send the engine makes on that transport ends in an
\* error; none is pending and none reports success.
C10_SendFailsAfterDisconnect ==
    [][\A c \in Conns :
          /\ ~StreamOpen(c)
          /\ sink_result'[c] # sink_result[c] \/ nsent'[c] # nsent[c]
          => sink_result'[c] = "error"]_vars

C11_NotLost ==
    \A c \in Conns :
        Closed(c) => removals[session_id[c]] > 0 \/ session_id[c] \notin DOMAIN txs

\* C11: once poll_close has returned Ready on a session's transport, a
\* removal task for its id is outstanding or the id is already absent from
\* the registry, and with the removal tasks scheduled fairly the id is
\* eventually absent, whatever lookups, registrations and removals of other
\* sessions run in between.
C11_EventuallyRemoved ==
    /\ [](C11_NotLost)
    /\ \A c \in Conns : Closed(c) ~> (session_id[c] \notin DOMAIN txs)

\* C11 witness: a session was closed and its id removed while another
\* session is still registered.
C11_Witness ==
    \E c, b \in Conns :
        /\ Closed(c)
        /\ session_id[c] \notin DOMAIN txs
        /\ session_id[b] \in DOMAIN txs

\* C12, as claimed: once the client has dropped the response stream of a
\* session, the session's id is eventually absent from the registry.
C12_DisconnectDeregisters ==
    \A c \in Conns : (sse[c] = "dropped") ~> (session_id[c] \notin DOMAIN txs)

\* The session of c has been closed from some origin: the engine closed or
\* dropped its transport, the client dropped the response stream, or the
\* stream ended on a message that could not be serialized.
TornDown(c) ==
    \/ Closed(c)
    \/ handler[c] = "streaming" /\ transport[c] = "dropped"
    \/ sse[c] \in {"dropped", "error"}

\* A step changes the registry only by registering the id a connection
\* has just minted or by removing the one entry of a session that has been
\* torn down; every other entry stays as it is.
C13_OneEntryAtATime ==
    txs' # txs =>
        \E c \in Conns :
            /\ \A id \in (DOMAIN txs \cup DOMAIN txs') \ {session_id'[c]} :
                   id \in DOMAIN txs /\ id \in DOMAIN txs' /\ txs'[id] = txs[id]
            /\ \/ handler[c] = "start" /\ txs' = Insert(txs, session_id'[c], c)
               \/ TornDown(c) /\ txs' = Remove(txs, session_id[c])

\* C13, as claimed: whichever origin tears a session down, its entry is
\* removed from the registry, once, and no trigger touches another
\* session's entry.
C13_DeregisteredExactlyOnce ==
    /\ [][C13_OneEntryAtATime]_vars
    /\ \A c \in Conns : TornDown(c) ~> (session_id[c] \notin DOMAIN txs)

C14_Step ==
    \A p \in Posts :
        /\ SendStep(p) /\ post'[p] = Returned
           /\ post[p].after_close /\ post[p].sid \in DOMAIN txs
           => response' = [sid |-> post[p].sid, status |-> GONE]
        /\ LookupStep(p)
           /\ RequestId(p) \notin DOMAIN txs
           /\ (\E c \in Conns : Closed(c) /\ session_id[c] = RequestId(p))
           => post'[p] = Returned /\ response' = [sid |-> RequestId(p), status |-> NOT_FOUND]

\* C14, as claimed: a submission whose lookup comes after poll_close and
\* which is answered while the id is still registered is answered 410, and
\* one whose lookup comes after the removal is answered 404.
C14_GoneThenNotFound == [][C14_Step]_vars

\* The entry of the session of c has been removed from the registry.
Removed(c) == session_id[c] # NoId /\ session_id[c] \notin DOMAIN txs

C15_Step ==
    \A c \in Conns :
        Removed(c) =>
            /\ accepted'[c] = accepted[c]
            /\ \A p \in Posts :
                   SendStep(p) /\ post'[p] = Returned /\ post[p].sid = session_id[c]
                   => response'.status # ACCEPTED

\* C15, as claimed: once a session's entry has been removed, no submission
\* for its id is answered 202 and nothing is enqueued on its inbound queue,
\* handlers that looked the id up before the removal included.
C15_NoAcceptAfterRemoval == [][C15_Step]_vars

\* C16, as claimed: a message whose submission was answered 202 has been
\* yielded by poll_next of its session or is still waiting in the inbound
\* queue to be yielded; it is never discarded.
C16_NoSilentLoss ==
    \A c \in Conns :
        \A i \in 1..Len(accepted[c]) :
            accepted[c][i].message \in Range(Yielded(c)) \cup Range(from_client[c])

\* C17, as claimed: a stream-open request that found the dispenser's
\* consuming side gone has returned an error response, not a stream, has
\* emitted no handshake, and has left no registry entry for the id it minted.
C17_NothingLeftBehind ==
    \A c \in Conns :
        handler[c] = "failed" =>
            /\ sse[c] = "refused"
            /\ emitted[c] = <<>>
            /\ session_id[c] \notin DOMAIN txs

\* The connections whose transport was dispensed and not yet yielded.
Pending == {c \in Conns : transport[c] = "queued"}

C18_Queue ==
    /\ Range(dispenser) = Pending
    /\ Cardinality(Pending) = Len(dispenser)
    /\ \A c \in Conns : handler[c] = "registered" => ENABLED SseDispense(c)
    /\ dispenser = <<>> /\ server = "alive"
       /\ (router = "alive" \/ \E c \in Conns : handler[c] = "registered")
       => ~ENABLED NextTransport

C18_Step ==
    /\ dispenser' # dispenser =>
           \/ \E c \in Conns :
                  /\ handler[c] = "registered" /\ handler'[c] = "streaming"
                  /\ dispenser' = Append(dispenser, c)
           \/ /\ dispenser # <<>>
              /\ dispenser' = Tail(dispenser)
              /\ transport'[Head(dispenser)] = "adopted"
           \/ server # "dropped" /\ server' = "dropped"
    /\ \A c \in Conns :
           transport[c] # "adopted" /\ transport'[c] = "adopted" =>
               dispenser # <<>> /\ c = Head(dispenser) /\ dispenser' = Tail(dispenser)
    /\ server # "ended" /\ server' = "ended" =>
           /\ router = "dropped"
           /\ \A c \in Conns : handler[c] # "registered"
           /\ \A p \in Posts : post[p].pc \notin {"send", "waiting"}
           /\ Pending = {}

\* C18: the hand-off queue holds exactly the dispensed transports not yet
\* yielded, each once, in dispense order; next_transport yields the oldest
\* and each transport is adopted once; a stream-open handler that has
\* registered can always dispense; next_transport is pending while nothing
\* is queued and a sender exists, and it returns None only when the router
\* and every handler holding a sender are gone and nothing is queued.
C18_NextTransport == [](C18_Queue) /\ [][C18_Step]_vars

\* C18 witness: every connection was dispensed and its transport yielded,
\* then the router was dropped and next_transport returned None.
C18_Witness ==
    /\ server = "ended"
    /\ \A c \in Conns : transport[c] = "adopted"

\* A stream-open request has registered c and neither poll_close nor a
\* drop has ended its transport.
NotClosed(c) == handler[c] # "start" /\ sink[c].sender

\* C19, as claimed: every stream-open whose session has not been closed
\* has its own registry entry, under an id no other such session has,
\* mapping to the inbound sender of its own connection; when none of the
\* sessions opened has been closed there are exactly as many entries as
\* stream-open requests.
C19_DistinctEntries ==
    /\ \A c \in Conns :
           NotClosed(c) => session_id[c] \in DOMAIN txs /\ txs[session_id[c]] = c
    /\ \A b, c \in Conns :
           NotClosed(b) /\ NotClosed(c) /\ b # c => session_id[b] # session_id[c]
    /\ (\A c \in Conns : handler[c] # "start" => NotClosed(c)) =>
           Cardinality(DOMAIN txs) = Cardinality({c \in Conns : handler[c] # "start"})

\* This step closes, deregisters, disconnects or fails the session of c:
\* its transport, its PollSender or its response stream changes, a removal
\* task for its id is spawned or run. Dropping the AuthSseServer, which ends
\* every queued transport at once, is not a step of one session.
Touches(c) ==
    /\ server' = server
    /\ \/ transport'[c] # transport[c]
       \/ sink'[c] # sink[c]
       \/ sse'[c] # sse[c]
       \/ session_id[c] # NoId /\ removals'[session_id[c]] # removals[session_id[c]]
       \/ session_id[c] \in DOMAIN txs /\ session_id[c] \notin DOMAIN txs'

\* This step leaves the session of b as it is.
Untouched(b) ==
    /\ session_id'[b] = session_id[b]
    /\ (session_id[b] \in DOMAIN txs) = (session_id[b] \in DOMAIN txs')
    /\ session_id[b] \in DOMAIN txs => txs'[session_id[b]] = txs[session_id[b]]
    /\ from_client'[b] = from_client[b] /\ to_client'[b] = to_client[b]
    /\ waiters'[b] = waiters[b] /\ granted'[b] = granted[b]
    /\ transport'[b] = transport[b] /\ sink'[b] = sink[b] /\ sse'[b] = sse[b]
    /\ emitted'[b] = emitted[b] /\ received'[b] = received[b]

C20_Step == \A b, c \in Conns : b # c /\ Touches(c) => Untouched(b)

BearerCredentials(token, header) ==
    header # NoHeader /\ header = Bearer_ \o token

BasicCredentials(token, header) ==
    /\ header # NoHeader
    /\ Len(header) >= Len(Basic_)
    /\ SubSeq(header, 1, Len(Basic_)) = Basic_
    /\ LET decoded == base64_decode(SubSeq(header, Len(Basic_) + 1, Len(header))) IN
       /\ decoded.ok
       /\ \E i \in 1..Len(decoded.text) :
            /\ decoded.text[i] = 58
            /\ \A k \in 1..(i - 1) : decoded.text[k] # 58
            /\ SubSeq(decoded.text, i + 1, Len(decoded.text)) = token

Credentials(token, header) ==
    BearerCredentials(token, header) \/ BasicCredentials(token, header)

RelayState ==
    <<clock, txs, removals, handler, session_id, transport, dispenser, router,
      server, sink, sink_result, to_client, sse, emitted, nsent, from_client,
      waiters, granted, received, accepted, post, response, ncloses, nfaults>>

C21_Answered ==
    auth.calls > 0 =>
        IF Credentials(auth.token, auth.request.header)
        THEN auth.response = Forwarded
        ELSE /\ auth.response.status = 401
             /\ auth.response.www_authenticate
                    = <<"Bearer, Basic realm=\"", auth.realm, "\"">>

C21_OnlyThroughTheGate ==
    /\ \A c \in Conns : handler[c] # "start" => c <= auth.forwarded["/sse"]
    /\ \A p \in Posts : post[p].pc # "new" => p <= auth.forwarded["/message"]

C21_Step ==
    auth'.calls # auth.calls =>
        /\ RelayState' = RelayState
        /\ auth'.forwarded[auth'.request.route]
              = auth.forwarded[auth'.request.route]
                  + (IF Credentials(auth.token, auth'.request.header) THEN 1 ELSE 0)
        /\ \A r \in Routes \ {auth'.request.route} :
              auth'.forwarded[r] = auth.forwarded[r]

C21_GateDecides == [](C21_Answered /\ C21_OnlyThroughTheGate) /\ [][C21_Step]_vars
\* C22: whenever safe_resolve returns Ok(p), p is a canonical path inside
\* the canonicalized base; a user path that starts with "/" or "\", holds
\* a NUL, or resolves through ".." or symbolic links to an existing
\* location outside the base gets PathTraversal, never Ok.
Canonical(link, p) ==
    /\ Node(link, p).kind \in {"dir", "file"}
    /\ \A n \in 0..(Len(p) - 1) : Node(link, SubSeq(p, 1, n)).kind = "dir"

Inside(p, dir) == Len(p) >= Len(dir) /\ \A i \in 1..Len(dir) : p[i] = dir[i]

Rejected(user_path) ==
    \/ user_path # <<>> /\ user_path[1] \in {"/", "\\"}
    \/ \E i \in 1..Len(user_path) : user_path[i] = NUL

C22_SafeResolve ==
    resolved.result.tag # "none" =>
        LET link == resolved.link
            base == canonicalize(link, resolved.base)
            there == Walk(link, base.path, Split(resolved.user_path), MaxLinks)
        IN
        /\ resolved.result.tag = "Ok" =>
              /\ base.ok
              /\ Canonical(link, resolved.result.path)
              /\ Inside(resolved.result.path, base.path)
        /\ Rejected(resolved.user_path) => resolved.result = PathTraversal
        /\ (base.ok /\ ~Rejected(resolved.user_path) /\ there.ok
               /\ ~Inside(there.path, base.path))
             => resolved.result = PathTraversal

C22_Witness ==
    /\ resolved.result = PathTraversal
    /\ ~Rejected(resolved.user_path)
    /\ resolved.user_path = <<"l", "/", "s">>
    /\ resolved.base = <<"/", "b">>
\* C23: an outbound message that cannot be serialized comes out of its
\* session's stream as an error item that ends the stream: it is the last
\* item, the items before it are the handshake and the messages sent before
\* it, one for one and in order, so no message is passed over and none
\* after it is delivered; and the failure changes no other session's
\* stream or queues and no registry entry.
IoError == [event |-> "io_error", data |-> <<"InvalidData">>]

C23_Surfaced ==
    \A c \in Conns :
        /\ \A k \in 2..Len(emitted[c]) :
              \/ emitted[c][k] = [event |-> "message", data |-> <<"json", c, k - 1>>]
              \/ emitted[c][k] = IoError /\ k = Len(emitted[c])
        /\ (emitted[c] # <<>> /\ emitted[c][Len(emitted[c])] = IoError)
              <=> sse[c] = "error"

C23_Step ==
    \A c \in Conns :
        /\ sse[c] = "error" => emitted'[c] = emitted[c] /\ sse'[c] = "error"
        /\ (/\ sse[c] = "chained"
            /\ to_client[c] # <<>>
            /\ ~recv(to_client[c]).value.serializable
            /\ emitted'[c] # emitted[c])
           => /\ emitted'[c] = Append(emitted[c], IoError)
              /\ sse'[c] = "error"
              /\ txs' = txs
              /\ \A b \in Conns \ {c} :
                    <<emitted[b], sse[b], to_client[b], from_client[b], waiters[b],
                      sink[b], transport[b]>>'
                      = <<emitted[b], sse[b], to_client[b], from_client[b], waiters[b],
                          sink[b], transport[b]>>

C23_SerializationFailure == [](C23_Surfaced) /\ [][C23_Step]_vars

\* C23 witness: a stream ended with the error item while a message sent
\* after the bad one was never delivered, and another session's stream is
\* open and has delivered a message.
C23_Witness ==
    \E c, b \in Conns :
        /\ b # c
        /\ sse[c] = "error"
        /\ nsent[c] > Len(emitted[c]) - 1
        /\ sse[b] = "chained"
        /\ Len(emitted[b]) >= 2
\* C24: a submission suspended on the full inbound queue of one session
\* holds no lock on the registry: while it is suspended a stream-open that
\* has arrived can register, a removal task that has been spawned can
\* deregister, and the submissions of other handlers can look their sender
\* up and send.
Suspended == \E p \in Posts : post[p].pc = "waiting"

C24_NoLockWhileSuspended ==
    Suspended =>
        /\ \A b \in Conns :
              (/\ router = "alive"
               /\ handler[b] = "start"
               /\ \A a \in Conns : a < b => handler[a] # "start")
              => ENABLED SseRegister(b)
        /\ \A id \in SessionIds : removals[id] > 0 => ENABLED RemovalTask(id)
        /\ \A q \in Posts :
              /\ (/\ router = "alive"
                  /\ post[q].pc = "new"
                  /\ nops < MaxOps
                  /\ \A o \in Posts : o < q => post[o].pc # "new")
                 => ENABLED PostLookup(q)
              /\ post[q].pc = "send" => ENABLED PostSend(q)

\* C24 witness: a submission is suspended while a removal task is waiting
\* to run and a stream-open has yet to register.
C24_Witness ==
    /\ Suspended
    /\ \E id \in SessionIds : removals[id] > 0
    /\ \E b \in Conns : handler[b] = "start"
    /\ router = "alive"
\* C25: when the inbound queue of a session holds its capacity of messages
\* the engine has not received, a further submission neither fails nor
\* loses a message: its handler stays suspended, without a response, until
\* the engine has received a message (the submission is then enqueued and
\* answered 202) or the inbound side has closed (it is then answered 410);
\* the queue never holds more than its capacity.
C25_Bounded ==
    /\ \A c \in Conns : Len(from_client[c]) <= Capacity
    /\ \A p \in Posts :
          post[p].pc = "waiting" =>
              /\ post[p].tx \in Conns
              /\ \E i \in 1..Len(waiters[post[p].tx]) : waiters[post[p].tx][i] = p
              /\ \A c \in Conns : \A i \in 1..Len(from_client[c]) : from_client[c][i] # p

C25_Step ==
    \A p \in Posts :
        LET c == post[p].tx IN
        /\ (/\ post[p].pc = "send"
            /\ post'[p] # post[p]
            /\ Len(from_client[c]) = Capacity
            /\ transport[c] # "dropped")
           => /\ post'[p] = [post[p] EXCEPT !.pc = "waiting"]
              /\ from_client' = from_client
              /\ accepted' = accepted
              /\ response' = response
        /\ (post[p].pc = "waiting" /\ post'[p] # post[p])
           => \/ /\ transport[c] # "dropped"
                 /\ Len(from_client[c]) < Capacity
                 /\ received[c] # <<>>
                 /\ Len(from_client'[c]) = Len(from_client[c]) + 1
                 /\ \E i \in 1..Len(from_client'[c]) : from_client'[c][i] = p
                 /\ accepted'[c] = Append(accepted[c], Submission(p))
                 /\ response' = [sid |-> post[p].sid, status |-> 202]
              \/ /\ transport[c] = "dropped"
                 /\ from_client' = from_client
                 /\ accepted' = accepted
                 /\ response' = [sid |-> post[p].sid, status |-> 410]

C25_InboundBackpressure == [](C25_Bounded) /\ [][C25_Step]_vars

\* C25 witness: a handler is suspended on a session whose engine has since
\* received a message, so that a slot is kept for it.
C25_Witness ==
    \E p \in Posts :
        /\ post[p].pc = "waiting"
        /\ granted[post[p].tx] > 0
        /\ received[post[p].tx] # <<>>
\* C26: poll_next yields end-of-stream only when every sender of the
\* session's inbound queue is gone (no registry entry holds one and no
\* submission handler in flight holds a clone) and every message enqueued
\* has been yielded; while the session has its entry in the registry no
\* end-of-stream has been yielded.
EndYielded(c) == \E i \in 1..Len(received[c]) : received[c][i] = 0

C26_Step ==
    \A c \in Conns :
        (~EndYielded(c) /\ EndYielded(c)') =>
            /\ \A id \in DOMAIN txs : txs[id] # c
            /\ \A p \in Posts : post[p].pc \in {"send", "waiting"} => post[p].tx # c
            /\ from_client[c] = <<>>
            /\ Len(received[c]) = Len(accepted[c])
            /\ \A i \in 1..Len(accepted[c]) : received[c][i] = accepted[c][i].message
            /\ received'[c] = Append(received[c], 0)

C26_Registered ==
    \A c \in Conns :
        (\E id \in DOMAIN txs : txs[id] = c) => ~EndYielded(c)

C26_EndOfStream == [](C26_Registered) /\ [][C26_Step]_vars

\* C26 witness: end-of-stream came after a message had been yielded.
C26_Witness ==
    \E c \in Conns :
        /\ EndYielded(c)
        /\ Len(received[c]) >= 2
        /\ accepted[c] # <<>>
\* C27: a registry entry is removed only by the removal task spawned by
\* poll_close on the SseTransport of its own session; no other step (a
\* submission, a dropped stream, a dropped transport, a failed dispense,
\* the opening of another stream) removes or changes an existing entry.
C27_Step ==
    \A id \in DOMAIN txs :
        (id \notin DOMAIN txs' \/ txs'[id] # txs[id]) =>
            /\ id \notin DOMAIN txs'
            /\ removals[id] > 0
            /\ removals'[id] = removals[id] - 1
            /\ session_id[txs[id]] = id
            /\ ~sink[txs[id]].sender
            /\ \A other \in DOMAIN txs \ {id} :
                  other \in DOMAIN txs' /\ txs'[other] = txs[other]

C27_OnlyTheRemovalTask == [][C27_Step]_vars
====
